---- MODULE Spec2Model ----
(***************************************************************************)
(* Model of server/subsonic/stream.go: the Subsonic Stream and Download    *)
(* handlers and the HTTP delivery of a resolved core.Stream.               *)
(*                                                                         *)
(* The source file holds two revisions of the handlers:                    *)
(*   rev 1, lines 1-164:   Stream with the delivery code inline, Download  *)
(*                         that always resolves "raw";                     *)
(*   rev 2, lines 166-354: serveStream factored out and shared by Stream   *)
(*                         and Download, Download with format resolution.  *)
(* A request is served by one of them (r.rev).                             *)
(*                                                                         *)
(* Strings the code parses (the Range header, entity names) are sequences  *)
(* of one-character strings; strings the code only builds are TLA+ strings *)
(* built with \o.                                                          *)
(***************************************************************************)
EXTENDS Integers, Sequences, FiniteSets, TLC

VARIABLES
  conf,    \* conf.Server: EnableDownloads, AutoTranscodeDownload
  pc,      \* where the handler of the current request stands
  r,       \* the request, as far as the handler has read it
  stream,  \* the stream NewStream returned for the request
  w,       \* the response writer
  ret,     \* the error the handler returned
  drain,   \* the detached task of a HEAD request: none, running, done, failed
  branch,  \* the delivery branch taken: seekable, probe, full, none
  calls    \* the calls made to the resolver and the archiver

vars == <<conf, pc, r, stream, w, ret, drain, branch, calls>>

(***************************************************************************)
(* Bounds of the model.                                                    *)
(***************************************************************************)
\* longest stream content, in bytes
MaxLen == 3
\* largest number of bytes the connection accepts before a write fails
MaxAccept == 1

(***************************************************************************)
(* Strings: helpers for the library calls the handlers make.               *)
(***************************************************************************)
Digits == <<"0", "1", "2", "3", "4", "5", "6", "7", "8", "9">>

IsDigit(c) == \E i \in 1..10 : Digits[i] = c

DigitVal(c) == (CHOOSE i \in 1..10 : Digits[i] = c) - 1

RECURSIVE Itoa(_)
\* strconv.Itoa for n >= 0 (the code formats lengths only)
Itoa(n) == IF n < 10 THEN Digits[n + 1] ELSE Itoa(n \div 10) \o Digits[(n % 10) + 1]

RECURSIVE Str(_)
\* the Go string holding the characters cs
Str(cs) == IF cs = <<>> THEN "" ELSE Head(cs) \o Str(Tail(cs))

\* strings.HasPrefix
HasPrefix(s, p) == Len(s) >= Len(p) /\ SubSeq(s, 1, Len(p)) = p

RECURSIVE SplitFrom(_, _, _)
SplitFrom(s, sep, cur) ==
  IF s = <<>> THEN <<cur>>
  ELSE IF Head(s) = sep THEN <<cur>> \o SplitFrom(Tail(s), sep, <<>>)
  ELSE SplitFrom(Tail(s), sep, Append(cur, Head(s)))

\* strings.Split with a one-character separator: always at least one piece
Split(s, sep) == SplitFrom(s, sep, <<>>)

RECURSIVE DigitsVal(_, _)
DigitsVal(s, acc) ==
  IF s = <<>> THEN acc ELSE DigitsVal(Tail(s), acc * 10 + DigitVal(Head(s)))

\* strconv.Atoi with the error dropped (the code keeps the value only):
\* an optional sign, then digits only; anything else is a syntax error, value 0.
Atoi(s) ==
  LET neg == s # <<>> /\ Head(s) = "-"
      t == IF s # <<>> /\ Head(s) \in {"+", "-"} THEN Tail(s) ELSE s
  IN IF t = <<>> \/ \E i \in 1..Len(t) : ~IsDigit(t[i]) THEN 0
     ELSE IF neg THEN 0 - DigitsVal(t, 0) ELSE DigitsVal(t, 0)

RECURSIVE ReplaceAll(_, _, _)
\* strings.ReplaceAll for one-character old and new
ReplaceAll(s, old, new) ==
  IF s = <<>> THEN <<>>
  ELSE <<IF Head(s) = old THEN new ELSE Head(s)>> \o ReplaceAll(Tail(s), old, new)

Min(a, b) == IF a < b THEN a ELSE b

(***************************************************************************)
(* The environment: configuration, catalog, request inputs.                *)
(***************************************************************************)
NoErr == "nil"
ErrMissingParameter == "ErrorMissingParameter"
ErrAuthorizationFail == "ErrorAuthorizationFail"
ErrNotFound == "ErrNotFound"
ErrTranscode == "ErrTranscodeFailure"
ErrArchive == "ErrArchiveFailure"

\* the Range header of a request that sends none (Header.Get gives "")
Absent == <<>>

\* ids a request may carry; "": the request has no id parameter
Ids == {"", "mf-1", "al-1", "ar-1", "pl-1", "xx-1", "zz-9"}

\* what the catalog holds under an id ("Other": an entity of a kind the
\* Download switch does not list; "None": no entity)
Kind(id) ==
  CASE id = "mf-1" -> "MediaFile"
    [] id = "al-1" -> "Album"
    [] id = "ar-1" -> "Artist"
    [] id = "pl-1" -> "Playlist"
    [] id = "xx-1" -> "Other"
    [] OTHER -> "None"

\* entity names, as characters (setHeaders rewrites them)
EntityName(id) == <<"A", ",", "B">>

Formats == {"", "mp3"}
BitRates == {0, 128}
Methods == {"GET", "HEAD"}

\* the client's transcoding profile in the request context, if any
NoProfile == [ok |-> FALSE, TargetFormat |-> "", DefaultBitRate |-> 0]
Profiles == {NoProfile, [ok |-> TRUE, TargetFormat |-> "opus", DefaultBitRate |-> 96]}

\* Range header values, as characters
RangeProbe == <<"b", "y", "t", "e", "s", "=", "0", "-", "1">>
RangeOther == <<"b", "y", "t", "e", "s", "=", "2", "-", "3">>
RangeOpen == <<"b", "y", "t", "e", "s", "=", "0", "-">>
RangeSuffix == <<"b", "y", "t", "e", "s", "=", "-", "1">>
RangeAlpha == <<"b", "y", "t", "e", "s", "=", "x", "-", "1">>
RangeExtraEq == <<"b", "y", "t", "e", "s", "=", "0", "-", "1", "=", "2">>
RangeMulti == <<"b", "y", "t", "e", "s", "=", "0", "-", "1", ",", "2", "-", "3">>
RangeUnit == <<"i", "t", "e", "m", "s", "=", "0", "-", "1">>

Ranges == {Absent, RangeProbe, RangeOther, RangeOpen, RangeSuffix, RangeAlpha,
           RangeExtraEq, RangeMulti, RangeUnit}

\* stream contents: the bytes 1, 2, ..., n (the handlers never look at a
\* byte's value; distinct non-zero bytes tell every position apart)
Contents == {[i \in 1..n |-> i] : n \in 0..MaxLen}
ContentTypes == {"audio/mpeg", "audio/aac"}

(***************************************************************************)
(* core.Stream: the resolved byte source.                                  *)
(***************************************************************************)
NoStream == [name |-> "", ctype |-> "", seekable |-> FALSE, content |-> <<>>,
             pos |-> 0, failAt |-> -1, eof |-> FALSE, closed |-> FALSE,
             lateReads |-> 0, open |-> FALSE]

\* the streams the resolver can hand out: failAt is the offset at which the
\* source fails (-1: it never does); "raw" is served from the stored file
Streams(format) ==
  {[name |-> "song.mp3", ctype |-> ct, seekable |-> sk, content |-> c,
    pos |-> 0, failAt |-> f, eof |-> FALSE, closed |-> FALSE,
    lateReads |-> 0, open |-> TRUE] :
      ct \in ContentTypes, sk \in (IF format = "raw" THEN {TRUE} ELSE BOOLEAN),
      c \in Contents, f \in -1..MaxLen}

Duration(s) == 3
ModTime(s) == 1
EstimatedContentLength(s) == 12

\* MediaStreamer.NewStream: the results the resolver can give for a call
NewStream(id, format, maxBitRate) ==
  IF Kind(id) # "MediaFile" THEN {[err |-> ErrNotFound, stream |-> NoStream]}
  ELSE {[err |-> ErrTranscode, stream |-> NoStream]}
       \cup {[err |-> NoErr, stream |-> s] :
               s \in {x \in Streams(format) : x.failAt <= Len(x.content)
                                              /\ (x.seekable => x.failAt = -1)}}

\* Stream.Read of one chunk (a chunk is one byte): res is "ok", "eof" or "err"
Read(s) ==
  IF s.closed
    THEN [s |-> [s EXCEPT !.lateReads = 1], data |-> <<>>, res |-> "err"]
  ELSE IF s.pos = s.failAt THEN [s |-> s, data |-> <<>>, res |-> "err"]
  ELSE IF s.pos = Len(s.content)
    THEN [s |-> [s EXCEPT !.eof = TRUE], data |-> <<>>, res |-> "eof"]
  ELSE [s |-> [s EXCEPT !.pos = @ + 1], data |-> <<s.content[s.pos + 1]>>,
        res |-> "ok"]

\* Stream.Close
Close(s) == [s EXCEPT !.closed = TRUE]

\* a reader that stops after 2 chunks, like io.ReadFull into a 2-byte buffer
ReadAtMostTwo(s) ==
  LET r1 == Read(s)
      r2 == Read(r1.s)
  IN IF r1.res # "ok" THEN [s |-> r1.s, data |-> <<>>]
     ELSE IF r2.res # "ok" THEN [s |-> r2.s, data |-> r1.data]
     ELSE [s |-> r2.s, data |-> r1.data \o r2.data]

RECURSIVE ReadAll(_)
\* io.ReadAll: reads until end-of-stream or an error; the bytes read so far
ReadAll(s) ==
  LET rd == Read(s)
  IN IF rd.res = "ok"
       THEN LET rest == ReadAll(rd.s)
            IN [s |-> rest.s, data |-> rd.data \o rest.data]
       ELSE [s |-> rd.s, data |-> <<>>]

(***************************************************************************)
(* http.ResponseWriter.                                                    *)
(***************************************************************************)
HeaderNames == {"X-Content-Type-Options", "X-Content-Duration", "Content-Range",
                "Accept-Ranges", "Content-Type", "Status", "Content-Length",
                "Content-Disposition"}

\* the value of a header that was never set
Unset == "<unset>"

\* accept: the number of body bytes the connection takes before writes fail
\* (-1: no limit); log: the calls made on the writer, in order
NewResponse == [header |-> [h \in HeaderNames |-> Unset], status |-> 0,
                body |-> <<>>, accept |-> -1, werr |-> FALSE, log |-> <<>>]

Event(op, arg, arg2) == [op |-> op, arg |-> arg, arg2 |-> arg2]

\* w.Header().Set(k, v)
Set(rw, k, v) ==
  [rw EXCEPT !.header[k] = v, !.log = Append(@, Event("Set", k, v))]

\* w.WriteHeader(code)
WriteHeader(rw, code) ==
  [rw EXCEPT !.status = IF @ = 0 THEN code ELSE @,
             !.log = Append(@, Event("WriteHeader", Itoa(code), ""))]

\* w.Write(data): commits status 200 when none was written; takes the bytes
\* the connection still accepts and fails on the rest
Write(rw, data) ==
  LET room == IF rw.accept < 0 THEN Len(data)
              ELSE Min(Len(data), rw.accept - Len(rw.body))
  IN [rw EXCEPT !.status = IF @ = 0 THEN 200 ELSE @,
                !.body = @ \o SubSeq(data, 1, room),
                !.werr = @ \/ room < Len(data),
                !.log = Append(@, Event("Write", Itoa(room), ""))]

\* http.ServeContent(w, r, name, modtime, content): the library answers the
\* request from the seekable content with the status st
ServeContent(rw, name, modtime, st) ==
  [rw EXCEPT !.status = st,
             !.log = Append(@, Event("ServeContent", name, Itoa(modtime)))]

ServeContentStatuses == {200, 206}

RECURSIVE Copy(_, _)
\* io.Copy(w, stream): read a chunk, write it, until end-of-stream or the
\* first read or write error
Copy(rw, s) ==
  LET rd == Read(s)
  IN IF rd.res = "eof" THEN [w |-> rw, s |-> rd.s, err |-> FALSE]
     ELSE IF rd.res = "err" THEN [w |-> rw, s |-> rd.s, err |-> TRUE]
     ELSE LET w2 == Write(rw, rd.data)
          IN IF w2.werr THEN [w |-> w2, s |-> rd.s, err |-> TRUE]
             ELSE Copy(w2, rd.s)

(***************************************************************************)
(* Delivery of a resolved stream.                                          *)
(***************************************************************************)
\* the start and end positions the handlers take from a Range header that
\* starts with "bytes="
ParseRange(reqRange) ==
  LET reqBlockRange == Split(Split(reqRange, "=")[2], "-")
  IN [startPosition |-> Atoi(reqBlockRange[1]),
      endPosition |-> IF Len(reqBlockRange) > 1 /\ reqBlockRange[2] # <<>>
                        THEN Atoi(reqBlockRange[2]) ELSE 0]

HasBytesPrefix(reqRange) ==
  reqRange # <<>> /\ HasPrefix(reqRange, <<"b", "y", "t", "e", "s", "=">>)

\* the condition under which the handlers answer the "range 0-1" request
IsProbe(reqRange) ==
  /\ HasBytesPrefix(reqRange)
  /\ ParseRange(reqRange).startPosition = 0
  /\ ParseRange(reqRange).endPosition = 1

ProbeBodyShort(data) == <<0>>

\* the body the range 0-1 answer sends: make([]byte, 2)
ProbeBody(data) == <<0, 0>>

\* the total the range 0-1 answer reports in Content-Range
ProbeTotal(data) == Len(data)

\* the range 0-1 answer: read the whole stream, report its length, send 2 bytes
Probe(rw, s, reqRange) ==
  LET ra == ReadAll(s)
      pr == ParseRange(reqRange)
      w1 == Set(rw, "Content-Range",
                "bytes " \o Itoa(pr.startPosition) \o "-" \o Itoa(pr.endPosition)
                  \o "/" \o Itoa(ProbeTotal(ra.data)))
      w2 == Set(w1, "Accept-Ranges", "bytes")
      w3 == Set(w2, "Content-Type", "audio/aac")
      w4 == WriteHeader(w3, 206)
      w5 == Set(w4, "Status", "206")
  IN [w |-> Write(w5, ProbeBody(ra.data)), s |-> ra.s, drain |-> "none",
      branch |-> "probe"]

SendEstimateAlways(estimateContentLength, s) == TRUE

\* whether the estimated Content-Length header is sent
SendEstimate(estimateContentLength, s) == estimateContentLength

\* the full answer of a stream without a size: headers, then the body copied
\* (GET) or the stream drained by a detached task (HEAD)
Full(rw, s, estimateContentLength, method) ==
  LET w1 == Set(rw, "Accept-Ranges", "none")
      w2 == Set(w1, "Content-Type", s.ctype)
      w3 == IF SendEstimate(estimateContentLength, s)
              THEN Set(w2, "Content-Length", Itoa(EstimatedContentLength(s)))
              ELSE w2
  IN IF method = "HEAD"
       THEN [w |-> w3, s |-> s, drain |-> "running", branch |-> "full"]
       ELSE LET cp == Copy(w3, s)
            IN [w |-> cp.w, s |-> cp.s, drain |-> "none", branch |-> "full"]

\* rev 1's delivery without the return that ends the range 0-1 answer
deliverInlineFallThrough(rw, s, reqRange, estimateContentLength, method, st) ==
  IF s.seekable
    THEN [w |-> ServeContent(rw, s.name, ModTime(s), st), s |-> s,
          drain |-> "none", branch |-> "seekable"]
  ELSE IF IsProbe(reqRange)
    THEN LET p == Probe(rw, s, reqRange)
         IN Full(p.w, p.s, estimateContentLength, method)
  ELSE Full(rw, s, estimateContentLength, method)

\* rev 1: the delivery code inline in Stream
deliverInline(rw, s, reqRange, estimateContentLength, method, st) ==
  IF s.seekable
    THEN [w |-> ServeContent(rw, s.name, ModTime(s), st), s |-> s,
          drain |-> "none", branch |-> "seekable"]
  ELSE IF IsProbe(reqRange) THEN Probe(rw, s, reqRange)
  ELSE Full(rw, s, estimateContentLength, method)

\* a delivery that looks at the Range header before it asks whether the
\* stream is seekable
serveStreamProbeFirst(rw, s, reqRange, estimateContentLength, method, st) ==
  IF IsProbe(reqRange) THEN Probe(rw, s, reqRange)
  ELSE IF s.seekable
    THEN [w |-> ServeContent(rw, s.name, ModTime(s), st), s |-> s,
          drain |-> "none", branch |-> "seekable"]
  ELSE IF HasBytesPrefix(reqRange)
    THEN [w |-> rw, s |-> s, drain |-> "none", branch |-> "none"]
  ELSE Full(rw, s, estimateContentLength, method)

\* rev 2: serveStream
serveStream(rw, s, reqRange, estimateContentLength, method, st) ==
  IF s.seekable
    THEN [w |-> ServeContent(rw, s.name, ModTime(s), st), s |-> s,
          drain |-> "none", branch |-> "seekable"]
  ELSE IF HasBytesPrefix(reqRange)
    THEN IF IsProbe(reqRange) THEN Probe(rw, s, reqRange)
         ELSE [w |-> rw, s |-> s, drain |-> "none", branch |-> "none"]
  ELSE Full(rw, s, estimateContentLength, method)

(***************************************************************************)
(* The handlers.                                                           *)
(***************************************************************************)
NewRequest == [handler |-> "", rev |-> 0, method |-> "", id |-> "", format |-> "",
               bitrate |-> 0, tc |-> NoProfile, range |-> Absent,
               estimateContentLength |-> FALSE]

Call(fn, id, format, bitrate) ==
  [fn |-> fn, id |-> id, format |-> format, bitrate |-> bitrate]

\* the value of a format or bitrate argument the callee does not take
NoArg == "<none>"

Init ==
  /\ conf \in [EnableDownloads : BOOLEAN, AutoTranscodeDownload : BOOLEAN]
  /\ pc = "idle"
  /\ r = NewRequest
  /\ stream = NoStream
  /\ w = NewResponse
  /\ ret = NoErr
  /\ drain = "none"
  /\ branch = "none"
  /\ calls = <<>>

\* the router hands a request to one of the handlers; requests are taken one
\* at a time, the next one when the previous one's work has ended
Request ==
  /\ pc = "idle"
  /\ \E h \in {"Stream", "Download"}, v \in {1, 2}, m \in Methods :
       r' = [NewRequest EXCEPT !.handler = h, !.rev = v, !.method = m]
  /\ pc' = "entry"
  /\ UNCHANGED <<conf, stream, w, ret, drain, branch, calls>>

\* the request is over: the handler has returned and the detached task, if
\* any, has ended; the server waits for the next request
Finish ==
  /\ pc = "returned"
  /\ drain # "running"
  /\ pc' = "idle"
  /\ r' = NewRequest
  /\ stream' = NoStream
  /\ w' = NewResponse
  /\ ret' = NoErr
  /\ drain' = "none"
  /\ branch' = "none"
  /\ calls' = <<>>
  /\ UNCHANGED conf

AfterNewStreamHeadersFirst(rw, res) ==
  LET w2 == Set(Set(rw, "X-Content-Type-Options", "nosniff"),
                "X-Content-Duration", Itoa(Duration(res.stream)))
  IN IF res.err # NoErr
       THEN [w |-> w2, ret |-> res.err, pc |-> "returned"]
       ELSE [w |-> w2, ret |-> NoErr, pc |-> "serve"]

\* Stream after NewStream returned res: the error goes back to the caller,
\* a stream gets the two X- headers and is delivered next
AfterNewStream(rw, res) ==
  IF res.err # NoErr
    THEN [w |-> rw, ret |-> res.err, pc |-> "returned"]
    ELSE [w |-> Set(Set(rw, "X-Content-Type-Options", "nosniff"),
                    "X-Content-Duration", Itoa(Duration(res.stream))),
          ret |-> NoErr, pc |-> "serve"]

\* Stream, up to the delivery
Stream ==
  /\ pc = "entry"
  /\ r.handler = "Stream"
  /\ \E id \in Ids, format \in Formats, maxBitRate \in BitRates :
       /\ r' = [r EXCEPT !.id = id, !.format = format, !.bitrate = maxBitRate]
       /\ IF id = ""
            THEN /\ ret' = ErrMissingParameter
                 /\ pc' = "returned"
                 /\ UNCHANGED <<stream, w, calls>>
            ELSE \E res \in NewStream(id, format, maxBitRate) :
                   LET nx == AfterNewStream(w, res)
                   IN /\ calls' = Append(calls, Call("NewStream", id, format,
                                                     Itoa(maxBitRate)))
                      /\ stream' = res.stream
                      /\ w' = nx.w
                      /\ ret' = nx.ret
                      /\ pc' = nx.pc
  /\ UNCHANGED <<conf, drain, branch>>

\* the delivery of the stream: inline in rev 1's Stream, serveStream in rev 2
Serve ==
  /\ pc = "serve"
  /\ \E reqRange \in Ranges, est \in BOOLEAN, acc \in -1..MaxAccept,
        st \in ServeContentStatuses :
       \E d \in {IF r.rev = 1
                   THEN deliverInline([w EXCEPT !.accept = acc], stream, reqRange,
                                      est, r.method, st)
                   ELSE serveStream([w EXCEPT !.accept = acc], stream, reqRange,
                                    est, r.method, st)} :
          \* inputs that play no part in the delivery are not enumerated
          /\ acc # -1 => \E i \in 1..Len(d.w.log) : d.w.log[i].op = "Write"
          /\ ~stream.seekable => st = 200
          /\ r' = [r EXCEPT !.range = reqRange, !.estimateContentLength = est]
          /\ w' = d.w
          /\ stream' = d.s
          /\ drain' = d.drain
          /\ branch' = d.branch
  /\ pc' = IF r.handler = "Stream" THEN "deferred" ELSE "returned"
  /\ UNCHANGED <<conf, ret, calls>>

\* a return that hands a failed transfer's error to the caller
StreamReturnRaises ==
  /\ pc = "deferred"
  /\ stream' = Close(stream)
  /\ pc' = "returned"
  /\ ret' = IF w.werr \/ stream.pos = stream.failAt THEN ErrTranscode ELSE ret
  /\ UNCHANGED <<conf, r, w, drain, branch, calls>>

\* Stream returns: the deferred function closes the stream
StreamReturn ==
  /\ pc = "deferred"
  /\ stream' = Close(stream)
  /\ pc' = "returned"
  /\ UNCHANGED <<conf, r, w, ret, drain, branch, calls>>

\* one step of the detached task of a HEAD request: io.Copy(io.Discard, stream)
DrainRead ==
  /\ drain = "running"
  /\ LET rd == Read(stream)
     IN /\ stream' = rd.s
        /\ drain' = CASE rd.res = "ok" -> "running"
                      [] rd.res = "eof" -> "done"
                      [] OTHER -> "failed"
  /\ UNCHANGED <<conf, pc, r, w, ret, branch, calls>>

DownloadsDisabledNever(c) == FALSE

\* whether Download refuses the request
DownloadsDisabled(c) == ~c.EnableDownloads

\* rev 2: the format and bitrate Download resolves from the request's
\* parameters, the configuration and the client's transcoding profile
EffectiveFormat(format, maxBitRate, auto, tc) ==
  IF format = ""
    THEN IF auto
           THEN IF ~tc.ok
                  THEN [format |-> "raw", bitrate |-> maxBitRate]
                  ELSE [format |-> tc.TargetFormat, bitrate |-> tc.DefaultBitRate]
           ELSE [format |-> "raw", bitrate |-> maxBitRate]
    ELSE [format |-> format, bitrate |-> maxBitRate]

\* core/model.GetEntityByID
GetEntityByID(id) ==
  IF Kind(id) = "None" THEN [err |-> ErrNotFound, kind |-> "None"]
  ELSE [err |-> NoErr, kind |-> Kind(id)]

\* setHeaders(name)
setHeaders(rw, name) ==
  Set(Set(rw, "Content-Disposition",
          "attachment; filename=\"" \o Str(ReplaceAll(name, ",", "_")) \o ".zip\""),
      "Content-Type", "application/zip")

ZipOfAlbumAlways(kind) == "ZipAlbum"

\* the archiver's method for an entity kind
ZipOf(kind) ==
  CASE kind = "Album" -> "ZipAlbum"
    [] kind = "Artist" -> "ZipArtist"
    [] kind = "Playlist" -> "ZipPlaylist"

\* what an archiver call can do: write n chunks of the archive, then return err
ZipResults == {[err |-> NoErr, n |-> 1], [err |-> ErrArchive, n |-> 0],
               [err |-> ErrArchive, n |-> 1]}

\* archiver.ZipAlbum, ZipArtist, ZipPlaylist writing to w
Zip(rw, res) == IF res.n = 0 THEN rw ELSE Write(rw, <<80>>)

\* Download, up to the delivery of a media file's stream
Download ==
  /\ pc = "entry"
  /\ r.handler = "Download"
  /\ \E id \in Ids :
       IF id = ""
         THEN /\ r' = [r EXCEPT !.id = id]
              /\ ret' = ErrMissingParameter
              /\ pc' = "returned"
              /\ UNCHANGED <<stream, w, calls, branch>>
       ELSE IF DownloadsDisabled(conf)
         THEN /\ r' = [r EXCEPT !.id = id]
              /\ ret' = ErrAuthorizationFail
              /\ pc' = "returned"
              /\ UNCHANGED <<stream, w, calls, branch>>
       ELSE IF GetEntityByID(id).err # NoErr
         THEN /\ r' = [r EXCEPT !.id = id]
              /\ ret' = GetEntityByID(id).err
              /\ pc' = "returned"
              /\ UNCHANGED <<stream, w, calls, branch>>
       ELSE \E format \in Formats, maxBitRate \in BitRates, tc \in Profiles :
         LET kind == GetEntityByID(id).kind
             eff == EffectiveFormat(format, maxBitRate,
                                    conf.AutoTranscodeDownload, tc)
             \* rev 1 resolves "raw" with no bitrate and archives without them
             sf == IF r.rev = 1 THEN "raw" ELSE eff.format
             sb == IF r.rev = 1 THEN 0 ELSE eff.bitrate
             af == IF r.rev = 1 THEN NoArg ELSE eff.format
             ab == IF r.rev = 1 THEN NoArg ELSE Itoa(eff.bitrate)
         IN /\ r' = [r EXCEPT !.id = id, !.format = format,
                              !.bitrate = maxBitRate, !.tc = tc]
            /\ CASE kind = "MediaFile" ->
                    \E res \in NewStream(id, sf, sb),
                       st \in ServeContentStatuses :
                      /\ calls' = Append(calls, Call("NewStream", id, sf, Itoa(sb)))
                      /\ stream' = res.stream
                      /\ IF res.err # NoErr
                           THEN /\ ret' = res.err
                                /\ pc' = "returned"
                                /\ UNCHANGED <<w, branch>>
                           ELSE LET w1 == Set(w, "Content-Disposition",
                                              "attachment; filename=\""
                                                \o res.stream.name \o "\"")
                                IN /\ ret' = NoErr
                                   /\ IF r.rev = 1
                                        THEN /\ w' = ServeContent(w1, res.stream.name,
                                                       ModTime(res.stream), st)
                                             /\ branch' = "seekable"
                                             /\ pc' = "returned"
                                        ELSE /\ st = 200
                                             /\ w' = w1
                                             /\ branch' = "none"
                                             /\ pc' = "serve"
                 [] kind \in {"Album", "Artist", "Playlist"} ->
                    \E res \in ZipResults :
                      /\ calls' = Append(calls, Call(ZipOf(kind), id, af, ab))
                      /\ w' = Zip(setHeaders(w, EntityName(id)), res)
                      /\ ret' = res.err
                      /\ pc' = "returned"
                      /\ UNCHANGED <<stream, branch>>
                 [] OTHER ->
                    /\ ret' = ErrNotFound
                    /\ pc' = "returned"
                    /\ UNCHANGED <<stream, w, calls, branch>>
  /\ UNCHANGED <<conf, drain>>

Next ==
  \/ Request
  \/ Stream
  \/ Download
  \/ Serve
  \/ StreamReturn
  \/ DrainRead
  \/ Finish

Spec == Init /\ [][Next]_vars

(***************************************************************************)
(* Properties.                                                             *)
(***************************************************************************)
\* the stream of the request has been delivered
Delivered == stream.open /\ pc \in {"deferred", "returned"}

NonSeekable == stream.open /\ ~stream.seekable

Header(k) == w.header[k]

\* C1: when Stream or Download returns after NewStream gave a stream, the
\* stream has been closed, whatever path the delivery took.
C1_StreamClosedOnReturn ==
  (pc = "returned" /\ stream.open) => stream.closed

\* C2: a request with Range: bytes=0-1 on a stream that is not seekable gets
\* status 206, Content-Range bytes 0-1/<N>, Accept-Ranges: bytes,
\* Content-Type: audio/aac and a body of exactly 2 bytes.
C2_ProbeResponseOriginal ==
  (Delivered /\ NonSeekable /\ r.range = RangeProbe) =>
    /\ w.status = 206
    /\ \E n \in 0..(MaxLen + 1) : Header("Content-Range") = "bytes 0-1/" \o Itoa(n)
    /\ Header("Accept-Ranges") = "bytes"
    /\ Header("Content-Type") = "audio/aac"
    /\ Len(w.body) = 2

\* C2, amended: the status and the three headers always; the body is exactly
\* 2 bytes when the write to the response succeeds, and never more than 2.
C2_ProbeResponse ==
  (Delivered /\ NonSeekable /\ r.range = RangeProbe) =>
    /\ w.status = 206
    /\ \E n \in 0..(MaxLen + 1) : Header("Content-Range") = "bytes 0-1/" \o Itoa(n)
    /\ Header("Accept-Ranges") = "bytes"
    /\ Header("Content-Type") = "audio/aac"
    /\ Len(w.body) <= 2
    /\ ~w.werr => Len(w.body) = 2

C2_Witness ==
  /\ Delivered /\ NonSeekable /\ r.range = RangeProbe
  /\ r.format = "mp3" /\ stream.ctype = "audio/mpeg" /\ Len(stream.content) = MaxLen
  /\ ~w.werr /\ Len(w.body) = 2 /\ w.status = 206

\* C3: a HEAD request on a stream that is not seekable (no range 0-1) sends no
\* body, and the detached task reads the stream to its end: once the task has
\* ended on a stream whose source does not fail, end-of-stream was reached.
C3_HeadDrainReachesEnd ==
  (NonSeekable /\ branch = "full" /\ r.method = "HEAD") =>
    /\ w.body = <<>>
    /\ (drain # "running" /\ stream.failAt = -1) => (drain = "done" /\ stream.eof)

\* C4: a GET on a stream that is not seekable whose Range header is absent or
\* a bytes range other than 0-1 is a full request: Accept-Ranges: none,
\* Content-Type from the stream, and the stream's bytes copied to the response
\* up to end-of-stream (when neither the source nor the write fails). Stated
\* for the absent header and the well-formed ranges; C12 has the malformed ones.
C4_NonProbeIsFull ==
  (Delivered /\ NonSeekable /\ r.method = "GET"
     /\ r.range \in {Absent, RangeOther, RangeOpen}) =>
    /\ Header("Accept-Ranges") = "none"
    /\ Header("Content-Type") = stream.ctype
    /\ (stream.failAt = -1 /\ ~w.werr) => (w.body = stream.content /\ stream.eof)

\* C5: on the range 0-1 path the 2-byte body is the first 2 bytes read from
\* the stream (stated for streams that yield at least 2 bytes).
C5_ProbeBodyIsStreamPrefix ==
  (branch = "probe" /\ r.range = RangeProbe /\ stream.pos >= 2 /\ ~w.werr) =>
    w.body = SubSeq(stream.content, 1, 2)

\* C6: the range 0-1 path does not drain the stream: when the stream holds
\* more than 2 bytes, unread bytes remain when the response is written, and
\* the N of Content-Range is the number of bytes read so far.
C6_ProbeLeavesStreamUnread ==
  (branch = "probe" /\ r.range = RangeProbe /\ Len(stream.content) > 2) =>
    /\ stream.pos < Len(stream.content)
    /\ Header("Content-Range") = "bytes 0-1/" \o Itoa(stream.pos)

\* C6, amended: the range 0-1 path reads the stream until end-of-stream or a
\* read error before it writes the response; N is the number of bytes read,
\* which is the stream's whole length when no read fails.
C6_ProbeDrainsStream ==
  (branch = "probe") =>
    /\ Header("Content-Range") = "bytes 0-1/" \o Itoa(stream.pos)
    /\ stream.eof \/ stream.pos = stream.failAt
    /\ stream.failAt = -1 => (stream.eof /\ stream.pos = Len(stream.content))

C6_Witness ==
  /\ branch = "probe" /\ Len(stream.content) > 2
  /\ stream.eof /\ stream.pos = Len(stream.content)
  /\ Header("Content-Range") = "bytes 0-1/" \o Itoa(Len(stream.content))

\* the handler has set the header k
HasSet(k) == \E i \in 1..Len(w.log) : w.log[i].op = "Set" /\ w.log[i].arg = k

\* C7: the handler sets Content-Length from the stream's estimated length
\* only when estimateContentLength=true and the stream is not seekable.
C7_EstimateOnlyOnRequest ==
  (HasSet("Content-Length") \/ Header("Content-Length") # Unset) =>
    /\ r.estimateContentLength
    /\ NonSeekable
    /\ Header("Content-Length") = Itoa(EstimatedContentLength(stream))

C7_Witness ==
  /\ Header("Content-Length") = "12"
  /\ r.estimateContentLength /\ NonSeekable /\ r.rev = 2

\* C8: with EnableDownloads false, a Download request for an id fails with
\* the authorization-failure error whatever kind of entity the id names, and
\* nothing is written to the response.
C8_DownloadsDisabled ==
  (r.handler = "Download" /\ pc = "returned" /\ r.id # "" /\ ~conf.EnableDownloads) =>
    /\ ret = ErrAuthorizationFail
    /\ w = NewResponse
    /\ calls = <<>>
    /\ ~stream.open

C8_Witness ==
  /\ r.handler = "Download" /\ pc = "returned" /\ ~conf.EnableDownloads
  /\ Kind(r.id) = "Album" /\ ret = ErrAuthorizationFail

\* C9: a Stream request whose id the resolver does not know fails with
\* NotFound, returned before any header is set, any status is written or any
\* body byte is sent.
C9_UnknownIdNotFound ==
  (r.handler = "Stream" /\ pc = "returned" /\ r.id # "" /\ Kind(r.id) # "MediaFile") =>
    /\ ret = ErrNotFound
    /\ w = NewResponse
    /\ ~stream.open

C9_Witness ==
  /\ r.handler = "Stream" /\ pc = "returned" /\ r.id = "zz-9"
  /\ ret = ErrNotFound /\ Len(calls) = 1

\* C10: in Download the format passed to the resolver or the archiver is the
\* format parameter when it is set; otherwise "raw" when AutoTranscodeDownload
\* is false or the client has no transcoding profile; otherwise the profile's
\* target format, with the profile's default bitrate.
C10_EffectiveFormat ==
  (r.handler = "Download" /\ pc \in {"serve", "returned"}) =>
    \A i \in 1..Len(calls) :
      calls[i].format # NoArg =>
        IF r.format # "" THEN calls[i].format = r.format
        ELSE IF ~conf.AutoTranscodeDownload \/ ~r.tc.ok THEN calls[i].format = "raw"
        ELSE /\ calls[i].format = r.tc.TargetFormat
             /\ calls[i].bitrate = Itoa(r.tc.DefaultBitRate)

\* the branch a request with the Range header reqRange takes in revision rev,
\* computed on a reference request: GET, no estimate, an empty stream
BranchOfRange(rev, reqRange) ==
  LET s0 == [NoStream EXCEPT !.open = TRUE]
  IN IF rev = 1
       THEN deliverInline(NewResponse, s0, reqRange, FALSE, "GET", 200).branch
       ELSE serveStream(NewResponse, s0, reqRange, FALSE, "GET", 200).branch

\* the range 0-1 answer was produced: its Content-Range was set
ProbeRan == HasSet("Content-Range")

\* the full answer was produced: Accept-Ranges was set to none
FullRan ==
  \E i \in 1..Len(w.log) :
    w.log[i].op = "Set" /\ w.log[i].arg = "Accept-Ranges" /\ w.log[i].arg2 = "none"

\* C11: in the delivery of a stream that is not seekable, the range 0-1
\* answer and the full answer (copy or detached drain) never both run, and
\* which one runs depends on the Range header alone: it is the branch a
\* reference request with the same Range header takes, whatever the method,
\* estimateContentLength, format, stream content or earlier requests.
C11_BranchByRangeAlone ==
  (Delivered /\ NonSeekable) =>
    /\ ~(ProbeRan /\ FullRan)
    /\ branch = BranchOfRange(r.rev, r.range)
    /\ ProbeRan <=> branch = "probe"
    /\ FullRan <=> branch = "full"
    /\ drain # "none" => branch = "full"

C11_Witness ==
  /\ Delivered /\ NonSeekable /\ branch = "probe" /\ ProbeRan
  /\ r.method = "HEAD" /\ r.estimateContentLength /\ r.format = "mp3"
  /\ Len(stream.content) = MaxLen /\ r.range = RangeProbe

\* C12: the range 0-1 answer is given only for the well-formed single range
\* bytes=0-1; a malformed Range value (empty or non-numeric start or end,
\* extra '=' segments, several ranges) is never answered as range 0-1.
C12_ProbeOnlyWellFormed ==
  (Delivered /\ NonSeekable /\ branch = "probe") => r.range = RangeProbe

\* a read from the source or a write to the response has failed, or the
\* source stands at the offset where it fails
TransferFailed ==
  \/ w.werr
  \/ stream.failAt # -1 /\ stream.pos = stream.failAt
  \/ drain = "failed"

\* C13: a failure during the transfer of a stream that is not seekable (a
\* failed read, a failed write) is not raised: Stream returns no error, the
\* transfer stops (nothing is done on the response after the failed write,
\* the body holds the bytes the connection took; nothing is read past the
\* failed read), and the stream is closed.
C13_TransferErrorNotRaised ==
  (r.handler = "Stream" /\ pc = "returned" /\ NonSeekable /\ TransferFailed) =>
    /\ ret = NoErr
    /\ stream.closed
    /\ w.werr => (w.log[Len(w.log)].op = "Write" /\ Len(w.body) = w.accept)
    /\ stream.failAt # -1 => stream.pos <= stream.failAt
    /\ (branch = "full" /\ r.method = "GET" /\ ~w.werr) =>
         w.body = SubSeq(stream.content, 1, stream.pos)

C13_Witness ==
  /\ r.handler = "Stream" /\ pc = "returned" /\ NonSeekable /\ branch = "full"
  /\ r.method = "GET" /\ w.werr /\ w.accept = MaxAccept
  /\ Len(stream.content) = MaxLen /\ ret = NoErr /\ stream.closed

\* the positions in the response's log of the calls op with first argument arg
LogAt(op, arg) == {i \in 1..Len(w.log) : w.log[i].op = op /\ w.log[i].arg = arg}

Writes == {i \in 1..Len(w.log) : w.log[i].op = "Write"}

\* C14: a Download of an Album, Artist or Playlist sets Content-Disposition
\* and Content-Type: application/zip exactly once each, before the archiver
\* writes the first body byte, and calls the archiver of the entity's kind
\* (once, and nothing else); an entity of another kind gives NotFound and no
\* archiver call.
C14_ZipHeadersOnceBeforeBody ==
  (r.handler = "Download" /\ pc = "returned" /\ conf.EnableDownloads) =>
    /\ Kind(r.id) \in {"Album", "Artist", "Playlist"} =>
         /\ Cardinality(LogAt("Set", "Content-Disposition")) = 1
         /\ Cardinality(LogAt("Set", "Content-Type")) = 1
         /\ Header("Content-Type") = "application/zip"
         /\ Header("Content-Disposition") = "attachment; filename=\"A_B.zip\""
         /\ \A i \in LogAt("Set", "Content-Disposition") \cup LogAt("Set", "Content-Type") :
              \A j \in Writes : i < j
         /\ Len(calls) = 1
         /\ calls[1].id = r.id
         /\ calls[1].fn = (CASE Kind(r.id) = "Album" -> "ZipAlbum"
                             [] Kind(r.id) = "Artist" -> "ZipArtist"
                             [] OTHER -> "ZipPlaylist")
    /\ Kind(r.id) = "Other" =>
         /\ ret = ErrNotFound
         /\ calls = <<>>
         /\ w = NewResponse

C14_Witness ==
  /\ r.handler = "Download" /\ pc = "returned" /\ r.id = "pl-1" /\ r.rev = 2
  /\ Len(calls) = 1 /\ calls[1].fn = "ZipPlaylist" /\ Writes # {}
  /\ Header("Content-Type") = "application/zip"

\* C15: a seekable stream is handed to http.ServeContent and nothing else:
\* no range 0-1 answer (even for Range: bytes=0-1), no Accept-Ranges: none,
\* no Content-Type: audio/aac, no detached drain, no read by the handler, and
\* exactly one ServeContent call, with the stream's name and modification time.
C15_SeekableDelegated ==
  (Delivered /\ stream.seekable) =>
    /\ branch = "seekable"
    /\ ~ProbeRan /\ ~FullRan
    /\ Header("Accept-Ranges") = Unset
    /\ Header("Content-Type") = Unset
    /\ Header("Status") = Unset
    /\ drain = "none"
    /\ stream.pos = 0
    /\ Writes = {}
    /\ Cardinality({i \in 1..Len(w.log) : w.log[i].op = "ServeContent"}) = 1
    /\ w.log[Len(w.log)] = Event("ServeContent", stream.name, Itoa(ModTime(stream)))

C15_Witness ==
  /\ Delivered /\ stream.seekable /\ r.range = RangeProbe /\ r.rev = 2
  /\ r.handler = "Stream" /\ branch = "seekable" /\ w.status = 206

\* C16: no Read is issued on a stream after its Close was called, in any
\* interleaving of the handler with the detached task of a HEAD request.
C16_NoReadAfterClose ==
  stream.lateReads = 0

\* C17: in every range 0-1 answer the total N of Content-Range: bytes 0-1/N
\* is at least 2, also when the stream yields fewer than 2 bytes or a read
\* fails (stated for the well-formed header bytes=0-1).
C17_ProbeTotalAtLeastTwo ==
  (branch = "probe" /\ r.range = RangeProbe) =>
    \E n \in 2..(MaxLen + 1) : Header("Content-Range") = "bytes 0-1/" \o Itoa(n)

\* C18: within a request every header the handler sets is set before the
\* status is committed: no Set follows a WriteHeader or a Write (stated for
\* requests whose Range header is absent or well-formed).
C18_HeadersBeforeStatus ==
  r.range \in {Absent, RangeProbe, RangeOther, RangeOpen} =>
    \A i, j \in 1..Len(w.log) :
      (i < j /\ w.log[i].op \in {"WriteHeader", "Write", "ServeContent"}) =>
        w.log[j].op # "Set"

\* C19: when Download returns an error it has set no response header and
\* written no body byte.
C19_DownloadErrorLeavesResponseUntouched ==
  (r.handler = "Download" /\ pc = "returned" /\ ret # NoErr) =>
    /\ w.log = <<>>
    /\ w.body = <<>>
    /\ \A h \in HeaderNames : Header(h) = Unset

====
